---- MODULE Spec2Model ----
(***************************************************************************)
(* Change tracking and commit generation of neo4go (src/neo.go): the node  *)
(* (field level) and the collection (row level) with their dirty lists,    *)
(* and the queries Commit sends to the database.                           *)
(*                                                                         *)
(* The lists of package anytype are sequences; Contains/IndexOf/Delete are *)
(* the list operations neo.go calls.  A Go panic aborts the running call   *)
(* and keeps every assignment made before it: an operation that panics     *)
(* ends with last.ok = FALSE.                                              *)
(***************************************************************************)
EXTENDS Integers, Sequences, FiniteSets, TLC

VARIABLES
    kind,          \* pool element -> "free" | "node" (*node) | "obj" (bare *anytype.MapObject)
    nodeId,        \* node.id ("" is EmptyId)
    nodeFields,    \* node.MapObject: the field store, a function on the keys present
    nodeAdded,     \* node.added
    nodeModified,  \* node.modified
    nodeDeleted,   \* node.deleted
    rows,          \* collection.SliceList
    colAdded,      \* collection.added (elements)
    colModified,   \* collection.modified (nodes)
    colDeleted,    \* collection.deleted (identities)
    store,         \* the database: identity -> properties of the record
    nextId,        \* the identity the database gives to the next created record
    queries,       \* the queries the most recent call sent through conn.Query
    last,          \* the most recent call: op its name, ok whether it returned (no panic),
                   \* elem / idx the element and index it was about, clean whether the
                   \* collection was Persisted when it began, again (of a Commit) whether
                   \* the call before it was a Commit that returned, prev (of a Commit)
                   \* the name of the call before it when that call returned, arg (of
                   \* Set / Unset / Add) the arguments,
                   \* fresh (of Set) whether no key given was in the field store or in a
                   \* key list of the node when it began, undo (of Unset) whether it
                   \* unsets the one key the call before it, a fresh Set on the same
                   \* node, had set; a Commit right after such an Unset keeps its undo,
                   \* elem and arg
    ops            \* number of calls made so far

vars == <<kind, nodeId, nodeFields, nodeAdded, nodeModified, nodeDeleted, rows,
          colAdded, colModified, colDeleted, store, nextId, queries, last, ops>>

(* ------------------------------ bounds -------------------------------- *)
NumLoaded == 2      \* rows the label holds when the collection is loaded
MaxNew == 2         \* elements created by Add / Insert / Replace in one run
MaxOps == 4         \* calls in one run
MaxFail == 2        \* a commit's 1st .. MaxFail-th query may be the one that fails

EmptyId == 0        \* the identity "" of a node that was never created in the database

Keys == {"a", "b"}
Pool == 1..(NumLoaded + MaxNew)
EmptyMap == [k \in {} |-> 1]
LoadedFields == [k \in {"a"} |-> 1]

\* the record of a call, with the entries only some calls use at their defaults
Call(op, ok, elem, idx, clean) ==
    [op |-> op, ok |-> ok, elem |-> elem, idx |-> idx, clean |-> clean, again |-> FALSE,
     prev |-> "", arg |-> <<>>, fresh |-> FALSE, undo |-> FALSE]

(* ---------------------- anytype list operations ----------------------- *)
Contains(list, e) == \E i \in 1..Len(list) : list[i] = e

\* 0-based position of the first occurrence, -1 when there is none
IndexOf(list, e) ==
    IF Contains(list, e)
    THEN (CHOOSE i \in 1..Len(list) : list[i] = e /\ \A j \in 1..(i - 1) : list[j] # e) - 1
    ELSE -1

InRange(list, index) == index >= 0 /\ index < Len(list)

\* list.Delete(index) for an index in range (out of range it panics)
DeleteAt(list, index) ==
    [j \in 1..(Len(list) - 1) |-> IF j <= index THEN list[j] ELSE list[j + 1]]

\* list.Insert(index, value) for 0 <= index <= Count
InsertAt(list, index, value) ==
    [j \in 1..(Len(list) + 1) |->
        IF j <= index THEN list[j] ELSE IF j = index + 1 THEN value ELSE list[j - 1]]

KeyExists(f, key) == key \in DOMAIN f

(* ------------------------------ node.Set ------------------------------ *)
\* the tracking loop of Set over the keys values[0], values[2], ...
RECURSIVE SetLoop(_, _, _, _)
SetLoop(n, values, i, t) ==
    IF i >= Len(values) THEN t
    ELSE LET key == values[i + 1]
             t2 == IF ~Contains(t.added, key)
                   THEN IF KeyExists(nodeFields[n], key)
                        THEN [t EXCEPT !.modified = Append(@, key)]
                        ELSE [t EXCEPT !.added = Append(@, key)]
                   ELSE t
         IN  SetLoop(n, values, i + 2, t2)

\* MapObject.Set(values...) for an even number of values: later pairs win
RECURSIVE MapSet(_, _, _)
MapSet(f, values, i) ==
    IF i >= Len(values) THEN f
    ELSE LET key == values[i + 1]
             val == values[i + 2]
         IN  MapSet([k \in DOMAIN f \cup {key} |-> IF k = key THEN val ELSE f[k]],
                    values, i + 2)

\* key is neither a field of n nor in one of its key lists
KeyUntracked(n, key) ==
    /\ ~KeyExists(nodeFields[n], key)
    /\ ~Contains(nodeAdded[n], key)
    /\ ~Contains(nodeModified[n], key)
    /\ ~Contains(nodeDeleted[n], key)

Touch(n) == IF ~Contains(colModified, n) THEN Append(colModified, n) ELSE colModified

Set(n, values) ==
    /\ ops < MaxOps
    /\ Contains(rows, n) /\ kind[n] = "node"
    /\ LET even == Len(values) % 2 = 0
           t == IF even
                THEN SetLoop(n, values, 0, [added |-> nodeAdded[n], modified |-> nodeModified[n]])
                ELSE [added |-> nodeAdded[n], modified |-> nodeModified[n]]
       IN  /\ nodeAdded' = [nodeAdded EXCEPT ![n] = t.added]
           /\ nodeModified' = [nodeModified EXCEPT ![n] = t.modified]
           /\ colModified' = Touch(n)
           \* MapObject.Set panics on an odd number of values
           /\ nodeFields' = IF even THEN [nodeFields EXCEPT ![n] = MapSet(@, values, 0)]
                            ELSE nodeFields
           /\ last' = [Call("Set", even, n, 0, FALSE) EXCEPT
                          !.arg = values,
                          !.fresh = even /\ \A i \in 1..Len(values) :
                                       i % 2 = 1 => KeyUntracked(n, values[i])]
    /\ queries' = <<>>
    /\ ops' = ops + 1
    /\ UNCHANGED <<kind, nodeId, nodeDeleted, rows, colAdded, colDeleted, store, nextId>>

(* ----------------------------- node.Unset ----------------------------- *)
\* the loop of Unset with the added branch leaving the key in added
RECURSIVE UnsetLoopKeepAdded(_, _, _)
UnsetLoopKeepAdded(keys, i, t) ==
    IF ~t.ok \/ i > Len(keys) THEN t
    ELSE LET key == keys[i]
             t2 == IF Contains(t.added, key)
                   THEN t
                   ELSE IF Contains(t.modified, key)
                        THEN IF InRange(t.modified, IndexOf(t.added, key))
                             THEN [t EXCEPT !.modified = DeleteAt(@, IndexOf(t.added, key))]
                             ELSE [t EXCEPT !.ok = FALSE]
                        ELSE [t EXCEPT !.deleted = Append(@, key)]
         IN  UnsetLoopKeepAdded(keys, i + 1, t2)

\* the loop of Unset; t.ok turns FALSE where modified.Delete(added.IndexOf(key))
\* is called with the index -1 of a key that is not in added
RECURSIVE UnsetLoop(_, _, _)
UnsetLoop(keys, i, t) ==
    IF ~t.ok \/ i > Len(keys) THEN t
    ELSE LET key == keys[i]
             t2 == IF Contains(t.added, key)
                   THEN [t EXCEPT !.added = DeleteAt(@, IndexOf(t.added, key))]
                   ELSE IF Contains(t.modified, key)
                        THEN IF InRange(t.modified, IndexOf(t.added, key))
                             THEN [t EXCEPT !.modified = DeleteAt(@, IndexOf(t.added, key))]
                             ELSE [t EXCEPT !.ok = FALSE]
                        ELSE [t EXCEPT !.deleted = Append(@, key)]
         IN  UnsetLoop(keys, i + 1, t2)

\* MapObject.Unset(keys...)
MapUnset(f, keys) == [k \in DOMAIN f \ {keys[i] : i \in 1..Len(keys)} |-> f[k]]

Unset(n, keys) ==
    /\ ops < MaxOps
    /\ Contains(rows, n) /\ kind[n] = "node"
    /\ LET t == UnsetLoop(keys, 1, [added |-> nodeAdded[n], modified |-> nodeModified[n],
                                    deleted |-> nodeDeleted[n], ok |-> TRUE])
       IN  /\ nodeAdded' = [nodeAdded EXCEPT ![n] = t.added]
           /\ nodeModified' = [nodeModified EXCEPT ![n] = t.modified]
           /\ nodeDeleted' = [nodeDeleted EXCEPT ![n] = t.deleted]
           /\ colModified' = IF t.ok THEN Touch(n) ELSE colModified
           /\ nodeFields' = IF t.ok THEN [nodeFields EXCEPT ![n] = MapUnset(@, keys)]
                            ELSE nodeFields
           /\ last' = [Call("Unset", t.ok, n, 0, FALSE) EXCEPT
                          !.arg = keys,
                          !.undo = /\ last.op = "Set" /\ last.ok /\ last.fresh
                                   /\ last.elem = n /\ Len(last.arg) = 2
                                   /\ keys = <<last.arg[1]>>]
    /\ queries' = <<>>
    /\ ops' = ops + 1
    /\ UNCHANGED <<kind, nodeId, rows, colAdded, colDeleted, store, nextId>>

\* Clear of the promoted MapObject, which node.Clear overrides: the fields go, it returns
MapClear(f) == [fields |-> EmptyMap, ok |-> TRUE]

\* node.Clear: panic("Cannot clear a Neo4j node.") and nothing else
ClearNode(f) == [fields |-> f, ok |-> FALSE]

NodeClear(n) ==
    /\ ops < MaxOps
    /\ Contains(rows, n) /\ kind[n] = "node"
    /\ LET t == ClearNode(nodeFields[n])
       IN  /\ nodeFields' = [nodeFields EXCEPT ![n] = t.fields]
           /\ last' = Call("NodeClear", t.ok, n, 0, FALSE)
    /\ queries' = <<>>
    /\ ops' = ops + 1
    /\ UNCHANGED <<kind, nodeId, nodeAdded, nodeModified, nodeDeleted, rows, colAdded,
                   colModified, colDeleted, store, nextId>>

(* ---------------------------- the database ---------------------------- *)
\* the effect on the database of a query that succeeds
StoreApply(st, q) ==
    CASE q.kind = "CREATE" -> (q.id :> q.params) @@ st
      [] q.kind = "DELETE" -> [i \in DOMAIN st \ {q.id} |-> st[i]]
      [] q.kind = "SET" ->
            IF q.id \in DOMAIN st
            THEN [st EXCEPT ![q.id] = [k \in DOMAIN @ \cup DOMAIN q.params |->
                                          IF k \in DOMAIN q.params THEN q.params[k] ELSE @[k]]]
            ELSE st
      [] q.kind = "NULL" ->
            IF q.id \in DOMAIN st
            THEN [st EXCEPT ![q.id] = [k \in DOMAIN @ \ {q.keys[1]} |-> @[k]]]
            ELSE st

\* the query call with the panic(err) after a failed query left out
QueryNoPanic(m, fail, q) ==
    IF m.count + 1 = fail
    THEN [m EXCEPT !.count = @ + 1, !.log = Append(@, [q EXCEPT !.err = TRUE])]
    ELSE [m EXCEPT !.count = @ + 1, !.log = Append(@, q), !.store = StoreApply(@, q)]

\* conn.Query inside a commit: the fail-th query of the call returns an error
\* (fail = 0: none does); m.ok = FALSE is the panic(err) that follows.  A query is
\* [kind, node, id, keys, params, err]: node the element it is sent for, id the
\* identity it names (of a CREATE: the one the database returns), err whether it failed
Query(m, fail, q) ==
    IF m.count + 1 = fail
    THEN [m EXCEPT !.count = @ + 1, !.ok = FALSE, !.log = Append(@, [q EXCEPT !.err = TRUE])]
    ELSE [m EXCEPT !.count = @ + 1, !.log = Append(@, q), !.store = StoreApply(@, q)]

(* ----------------------------- node.Commit ---------------------------- *)
\* ego.Pluck(todo...): the fields named by todo
Pluck(f, todo) == [k \in {todo[i] : i \in 1..Len(todo)} \cap DOMAIN f |-> f[k]]

\* "Commiting set keys"
SetKeysPhase(m, fail, n) ==
    IF m.added[n] # <<>> \/ nodeModified[n] # <<>>
    THEN LET todo == m.added[n] \o nodeModified[n]
             r == Query(m, fail, [kind |-> "SET", node |-> n, id |-> m.id[n], keys |-> todo,
                                  params |-> Pluck(nodeFields[n], todo), err |-> FALSE])
         IN  IF r.ok THEN [r EXCEPT !.added[n] = <<>>] ELSE r
    ELSE m

RECURSIVE NullLoop(_, _, _, _)
NullLoop(m, fail, n, i) ==
    IF ~m.ok \/ i > Len(m.deleted[n]) THEN m
    ELSE NullLoop(Query(m, fail, [kind |-> "NULL", node |-> n, id |-> m.id[n],
                                  keys |-> <<m.deleted[n][i]>>, params |-> EmptyMap,
                                  err |-> FALSE]),
                  fail, n, i + 1)

\* "Commiting unset keys"
UnsetKeysPhase(m, fail, n) ==
    IF m.ok /\ m.deleted[n] # <<>>
    THEN LET r == NullLoop(m, fail, n, 1)
         IN  IF r.ok THEN [r EXCEPT !.deleted[n] = <<>>] ELSE r
    ELSE m

NodeCommit(m, fail, n) == UnsetKeysPhase(SetKeysPhase(m, fail, n), fail, n)

(* -------------------------- collection.Commit ------------------------- *)
RECURSIVE CreateLoop(_, _, _)
CreateLoop(m, fail, i) ==
    IF ~m.ok \/ i > Len(m.cAdded) THEN m
    ELSE LET x == m.cAdded[i] IN
         IF kind[x] # "node"
         THEN [m EXCEPT !.ok = FALSE]          \* x.(*node) on a bare MapObject
         ELSE LET r == Query(m, fail, [kind |-> "CREATE", node |-> x, id |-> m.nextId,
                                       keys |-> <<>>, params |-> nodeFields[x],
                                       err |-> FALSE])
              IN  CreateLoop(IF r.ok THEN [r EXCEPT !.id[x] = m.nextId, !.nextId = @ + 1]
                             ELSE r,
                             fail, i + 1)

\* "Commiting added elements"
CreatePhase(m, fail) ==
    IF m.ok /\ m.cAdded # <<>>
    THEN LET r == CreateLoop(m, fail, 1)
         IN  IF r.ok THEN [r EXCEPT !.cAdded = <<>>] ELSE r
    ELSE m

RECURSIVE DeleteLoop(_, _, _)
DeleteLoop(m, fail, i) ==
    IF ~m.ok \/ i > Len(m.cDeleted) THEN m
    ELSE DeleteLoop(Query(m, fail, [kind |-> "DELETE", node |-> 0, id |-> m.cDeleted[i],
                                    keys |-> <<>>, params |-> EmptyMap, err |-> FALSE]),
                    fail, i + 1)

\* "Commiting deleted elements"
DeletePhase(m, fail) ==
    IF m.ok /\ m.cDeleted # <<>>
    THEN LET r == DeleteLoop(m, fail, 1)
         IN  IF r.ok THEN [r EXCEPT !.cDeleted = <<>>] ELSE r
    ELSE m

RECURSIVE ModifiedLoop(_, _, _)
ModifiedLoop(m, fail, i) ==
    IF ~m.ok \/ i > Len(m.cModified) THEN m
    ELSE ModifiedLoop(NodeCommit(m, fail, m.cModified[i]), fail, i + 1)

\* the phase with the .Clear() that ends it left out
ModifiedPhaseNoClear(m, fail) ==
    IF m.ok /\ m.cModified # <<>> THEN ModifiedLoop(m, fail, 1) ELSE m

\* "Commiting modified elements"
ModifiedPhase(m, fail) ==
    IF m.ok /\ m.cModified # <<>>
    THEN LET r == ModifiedLoop(m, fail, 1)
         IN  IF r.ok THEN [r EXCEPT !.cModified = <<>>] ELSE r
    ELSE m

\* the phases with the deleted elements committed before the added ones
CommitPhasesDeleteFirst(m, fail) ==
    ModifiedPhase(CreatePhase(DeletePhase(m, fail), fail), fail)

\* the three phases in the order of the method body
CommitPhases(m, fail) == ModifiedPhase(DeletePhase(CreatePhase(m, fail), fail), fail)

Commit(fail) ==
    /\ ops < MaxOps
    /\ LET m == CommitPhases([id |-> nodeId, added |-> nodeAdded, deleted |-> nodeDeleted,
                              cAdded |-> colAdded, cDeleted |-> colDeleted,
                              cModified |-> colModified, store |-> store,
                              nextId |-> nextId, log |-> <<>>, count |-> 0, ok |-> TRUE],
                             fail)
       IN  /\ nodeId' = m.id
           /\ nodeAdded' = m.added
           /\ nodeDeleted' = m.deleted
           /\ colAdded' = m.cAdded
           /\ colDeleted' = m.cDeleted
           /\ colModified' = m.cModified
           /\ store' = m.store
           /\ nextId' = m.nextId
           /\ queries' = m.log
           /\ last' = LET undone == last.op = "Unset" /\ last.undo
                      IN  [Call("Commit", m.ok, IF undone THEN last.elem ELSE 0, 0, FALSE)
                             EXCEPT !.again = last.op = "Commit" /\ last.ok,
                                    !.prev = IF last.ok THEN last.op ELSE "",
                                    !.arg = IF undone THEN last.arg ELSE <<>>,
                                    !.undo = undone]
    /\ ops' = ops + 1
    /\ UNCHANGED <<kind, nodeFields, nodeModified, rows>>

(* ----------------------- collection: the list calls -------------------- *)
\* The list calls work on c = [rows, cAdded, cModified, cDeleted, kind, fields, ok],
\* the collection and the elements allocated so far; c.ok = FALSE after a panic.
Coll == [rows |-> rows, cAdded |-> colAdded, cModified |-> colModified,
         cDeleted |-> colDeleted, kind |-> kind, fields |-> nodeFields, ok |-> TRUE]

Allocated(c) == Cardinality({x \in Pool : c.kind[x] # "free"})

\* a value handed to Add / Insert / Replace: an anytype.Object with fields f, or not one
Obj(f) == [obj |-> TRUE, f |-> f]
NotObj == [obj |-> FALSE, f |-> EmptyMap]

\* Add without ego.added.Add(node)
AddOneUntracked(c, value) ==
    IF ~value.obj THEN [c EXCEPT !.ok = FALSE]
    ELSE LET node == Allocated(c) + 1
         IN  [c EXCEPT !.kind[node] = "node", !.fields[node] = value.f,
                       !.rows = Append(@, node)]

\* the body of the loop of Add for one value
AddOne(c, value) ==
    IF ~value.obj THEN [c EXCEPT !.ok = FALSE]
    ELSE LET node == Allocated(c) + 1       \* ego.newNode("", value)
         IN  [c EXCEPT !.kind[node] = "node", !.fields[node] = value.f,
                       !.cAdded = Append(@, node), !.rows = Append(@, node)]

RECURSIVE AddLoop(_, _, _)
AddLoop(c, values, i) ==
    IF ~c.ok \/ i > Len(values) THEN c
    ELSE AddLoop(AddOne(c, values[i]), values, i + 1)

\* Insert: the value itself goes into added and into the list
InsertCall(c, index, value) ==
    IF ~c.ok THEN c
    ELSE IF ~value.obj THEN [c EXCEPT !.ok = FALSE]
    ELSE LET x == Allocated(c) + 1
             c2 == [c EXCEPT !.kind[x] = "obj", !.fields[x] = value.f,
                             !.cAdded = Append(@, x)]
         IN  IF index >= 0 /\ index <= Len(c.rows)
             THEN [c2 EXCEPT !.rows = InsertAt(@, index, x)]
             ELSE [c2 EXCEPT !.ok = FALSE]

\* the loop of Delete: `for index := range indexes` runs index over the positions
\* 0 .. len(indexes)-1 of the argument list
RECURSIVE DeleteTrack(_, _, _)
DeleteTrack(c, indexes, index) ==
    IF ~c.ok \/ index >= Len(indexes) THEN c
    ELSE IF ~InRange(c.rows, index) THEN [c EXCEPT !.ok = FALSE]     \* ego.Get(index)
    ELSE LET elem == c.rows[index + 1]
             c2 == IF Contains(c.cModified, elem)
                   THEN [c EXCEPT !.cModified = DeleteAt(@, IndexOf(c.cModified, elem))]
                   ELSE c
         IN  DeleteTrack(IF Contains(c.cAdded, elem)
                         THEN [c EXCEPT !.cAdded = DeleteAt(@, IndexOf(c.cAdded, elem))]
                         ELSE IF c.kind[elem] = "node"
                              THEN [c2 EXCEPT !.cDeleted = Append(@, nodeId[elem])]
                              ELSE c2,
                         indexes, index + 1)

\* SliceList.Delete(indexes...), the indexes given in descending order
RECURSIVE ListDelete(_, _, _)
ListDelete(c, indexes, i) ==
    IF ~c.ok \/ i > Len(indexes) THEN c
    ELSE IF ~InRange(c.rows, indexes[i]) THEN [c EXCEPT !.ok = FALSE]
    ELSE ListDelete([c EXCEPT !.rows = DeleteAt(@, indexes[i])], indexes, i + 1)

DeleteCall(c, indexes) ==
    IF ~c.ok THEN c ELSE ListDelete(DeleteTrack(c, indexes, 0), indexes, 1)

\* the loop of Clear: i runs from Count-1 down to 0
RECURSIVE ClearLoop(_, _)
ClearLoop(c, i) ==
    IF ~c.ok \/ i < 0 THEN c
    ELSE ClearLoop(DeleteCall(c, <<i>>), i - 1)

\* what a list call leaves behind
Apply(c, op, elem, idx, clean, arg) ==
    /\ rows' = c.rows
    /\ colAdded' = c.cAdded
    /\ colModified' = c.cModified
    /\ colDeleted' = c.cDeleted
    /\ kind' = c.kind
    /\ nodeFields' = c.fields
    /\ last' = [Call(op, c.ok, elem, idx, clean) EXCEPT !.arg = arg]
    /\ queries' = <<>>
    /\ ops' = ops + 1
    /\ UNCHANGED <<nodeId, nodeAdded, nodeModified, nodeDeleted, store, nextId>>

\* every row is a node with an identity and no row is waiting to be created or deleted
Persisted ==
    /\ colAdded = <<>> /\ colDeleted = <<>>
    /\ \A i \in 1..Len(rows) : kind[rows[i]] = "node" /\ nodeId[rows[i]] # EmptyId

ElemAt(index) == IF InRange(rows, index) THEN rows[index + 1] ELSE 0

Add(values) ==
    /\ ops < MaxOps
    /\ Allocated(Coll) + Len(values) <= NumLoaded + MaxNew
    /\ Apply(AddLoop(Coll, values, 1), "Add", Allocated(Coll) + 1, Len(rows), Persisted, values)

Insert(index, value) ==
    /\ ops < MaxOps
    /\ Allocated(Coll) < NumLoaded + MaxNew
    /\ Apply(InsertCall(Coll, index, value), "Insert", Allocated(Coll) + 1, index, Persisted, <<>>)

Replace(index, value) ==
    /\ ops < MaxOps
    /\ Allocated(Coll) < NumLoaded + MaxNew
    /\ Apply(InsertCall(DeleteCall(Coll, <<index>>), index, value),
             "Replace", Allocated(Coll) + 1, index, Persisted, <<>>)

Delete(indexes) ==
    /\ ops < MaxOps
    /\ Apply(DeleteCall(Coll, indexes), "Delete", ElemAt(indexes[1]), indexes[1], Persisted, <<>>)

Pop ==
    /\ ops < MaxOps
    /\ Apply(DeleteCall(Coll, <<Len(rows) - 1>>), "Pop", ElemAt(Len(rows) - 1),
             Len(rows) - 1, Persisted, <<>>)

Clear ==
    /\ ops < MaxOps
    /\ LET c == ClearLoop(Coll, Len(rows) - 1)
       IN  Apply(IF c.ok THEN [c EXCEPT !.rows = <<>>] ELSE c, "Clear", 0, 0, Persisted, <<>>)

(* ------------------------------- start -------------------------------- *)
\* NewCollection over a label that holds NumLoaded records
Init ==
    /\ kind = [x \in Pool |-> IF x <= NumLoaded THEN "node" ELSE "free"]
    /\ nodeId = [x \in Pool |-> IF x <= NumLoaded THEN x ELSE EmptyId]
    /\ nodeFields = [x \in Pool |-> IF x <= NumLoaded THEN LoadedFields ELSE EmptyMap]
    /\ nodeAdded = [x \in Pool |-> <<>>]
    /\ nodeModified = [x \in Pool |-> <<>>]
    /\ nodeDeleted = [x \in Pool |-> <<>>]
    /\ rows = [i \in 1..NumLoaded |-> i]
    /\ colAdded = <<>>
    /\ colModified = <<>>
    /\ colDeleted = <<>>
    /\ store = [i \in 1..NumLoaded |-> LoadedFields]
    /\ nextId = NumLoaded + 1
    /\ queries = <<>>
    /\ last = Call("Load", TRUE, 0, 0, TRUE)
    /\ ops = 0

F1 == [k \in {"a"} |-> 1]
F2 == [k \in {"b"} |-> 2]
AddInputs == {<<Obj(F1)>>, <<Obj(F1), Obj(F2)>>, <<Obj(F1), NotObj>>}
InsertInputs == {Obj(F1)}
SetInputs == {<<"a", 2>>, <<"b", 1>>}
UnsetInputs == {<<"a">>}
NodeSetInputs == SetInputs \cup {<<"a", 1>>, <<"a", 2, "b", 2>>, <<"b">>}
NodeUnsetInputs == UnsetInputs \cup {<<"b">>}

Next ==
    \/ \E n \in Pool, values \in SetInputs : Set(n, values)
    \/ \E n \in Pool, keys \in UnsetInputs : Unset(n, keys)
    \/ \E fail \in 0..MaxFail : Commit(fail)
    \/ \E values \in AddInputs : Add(values)
    \/ \E index \in 0..Len(rows), value \in InsertInputs : Insert(index, value)
    \/ \E index \in 0..(Len(rows) - 1), value \in InsertInputs : Replace(index, value)
    \/ \E index \in 0..(Len(rows) - 1) : Delete(<<index>>)
    \/ Pop
    \/ Clear

Spec == Init /\ [][Next]_vars

\* the field-level calls alone, on the rows as loaded
NodeNext ==
    \/ \E n \in Pool, values \in NodeSetInputs : Set(n, values)
    \/ \E n \in Pool, keys \in NodeUnsetInputs : Unset(n, keys)
    \/ \E fail \in 0..MaxFail : Commit(fail)

SpecNode == Init /\ [][NodeNext]_vars

\* every method of one node, the first row of the loaded collection, and the commit
OneNodeNext ==
    \/ \E values \in NodeSetInputs : Set(rows[1], values)
    \/ \E keys \in NodeUnsetInputs : Unset(rows[1], keys)
    \/ NodeClear(rows[1])
    \/ \E fail \in 0..MaxFail : Commit(fail)

SpecOneNode == Init /\ [][OneNodeNext]_vars

\* the list calls of the collection and commits in which no query fails
RowsNext ==
    \/ \E values \in AddInputs : Add(values)
    \/ \E index \in 0..Len(rows), value \in InsertInputs : Insert(index, value)
    \/ \E index \in 0..(Len(rows) - 1), value \in InsertInputs : Replace(index, value)
    \/ \E index \in 0..(Len(rows) - 1) : Delete(<<index>>)
    \/ Pop
    \/ Clear
    \/ Commit(0)

SpecRows == Init /\ [][RowsNext]_vars

(* ============================== claims =============================== *)
IsCreate(q) == q.kind = "CREATE"
IsRowDelete(q) == q.kind = "DELETE"
IsFieldQuery(q) == q.kind \in {"SET", "NULL"}
Succeeded(log) == \A i \in 1..Len(log) : ~log[i].err
Elems(list) == {list[i] : i \in 1..Len(list)}

CommitReturned == last.op = "Commit" /\ last.ok

(* C1: after Delete(i) on a collection of persisted rows and a Commit that   *)
(* returns, exactly one row-delete query was sent, its $id is the identity   *)
(* of the row that was at index i, that row is no longer in rows, and no     *)
(* row-delete query names the identity of a row that is still in rows.       *)
C1_DeleteThenCommit ==
    [][(last.op = "Delete" /\ last.ok /\ last.clean /\ CommitReturned')
        => LET dels == SelectSeq(queries', IsRowDelete)
           IN  /\ Len(dels) = 1
               /\ dels[1].id = nodeId[last.elem]
               /\ ~Contains(rows', last.elem)
               /\ \A i \in 1..Len(rows') : \A j \in 1..Len(dels) :
                      dels[j].id # nodeId'[rows'[i]]]_vars

(* C2: every field key is in at most one of a node's added, modified and    *)
(* deleted keys.                                                            *)
C2_KeyListsDisjoint ==
    \A n \in Pool : \A k \in Keys :
        /\ ~(Contains(nodeAdded[n], k) /\ Contains(nodeModified[n], k))
        /\ ~(Contains(nodeAdded[n], k) /\ Contains(nodeDeleted[n], k))
        /\ ~(Contains(nodeModified[n], k) /\ Contains(nodeDeleted[n], k))

(* C3: after a commit in which every query succeeds, every node it committed *)
(* has empty added, modified and deleted keys.                               *)
C3_CommitClearsKeys ==
    [][CommitReturned'
        => \A n \in Elems(colModified) :
               nodeAdded'[n] = <<>> /\ nodeModified'[n] = <<>> /\ nodeDeleted'[n] = <<>>]_vars

(* C4: an identity, once non-empty, never changes, and no node that has an  *)
(* identity is created again (at most one successful CREATE per node).      *)
C4_IdentityStable ==
    [][\A n \in Pool :
          /\ nodeId[n] # EmptyId => nodeId'[n] = nodeId[n]
          /\ nodeId[n] # EmptyId
                => \A i \in 1..Len(queries') :
                       ~(IsCreate(queries'[i]) /\ queries'[i].node = n /\ ~queries'[i].err)
          /\ Cardinality({i \in 1..Len(queries') :
                 IsCreate(queries'[i]) /\ queries'[i].node = n /\ ~queries'[i].err}) <= 1]_vars

(* C5: no element is in both the collection's added and modified rows.      *)
C5_AddedXorModified ==
    \A x \in Pool : ~(Contains(colAdded, x) /\ Contains(colModified, x))

(* C6: a node that was added and then removed from rows before it was ever  *)
(* created in the database is in none of added, modified and deleted rows,  *)
(* and a commit sends no query on its behalf.                               *)
NeverPersistedGone(x) ==
    kind[x] = "node" /\ nodeId[x] = EmptyId /\ ~Contains(rows, x)

C6_RemovedAddIsDropped ==
    [][\A x \in Pool :
          /\ NeverPersistedGone(x)'
                => /\ ~Contains(colAdded', x)
                   /\ ~Contains(colModified', x)
                   /\ ~Contains(colDeleted', EmptyId)
          /\ (NeverPersistedGone(x) /\ last'.op = "Commit")
                => \A i \in 1..Len(queries') : queries'[i].node # x]_vars

(* C7: after Set / Unset calls on loaded nodes and a commit that returns,   *)
(* the record the database holds for each row equals the row's fields.      *)
C7_RoundTrip ==
    [][CommitReturned'
        => \A i \in 1..Len(rows') :
               /\ nodeId'[rows'[i]] \in DOMAIN store'
               /\ store'[nodeId'[rows'[i]]] = nodeFields'[rows'[i]]]_vars

C9_PhaseOrder ==
    \A i \in 1..Len(queries) : \A j \in 1..Len(queries) :
        i < j => /\ IsRowDelete(queries[i]) => ~IsCreate(queries[j])
                 /\ IsFieldQuery(queries[i]) => ~IsCreate(queries[j]) /\ ~IsRowDelete(queries[j])

\* one commit that sent a CREATE, a row DELETE and a SET
C9_Witness ==
    /\ CommitReturned
    /\ \E i, j, k \in 1..Len(queries) :
          IsCreate(queries[i]) /\ IsRowDelete(queries[j]) /\ queries[k].kind = "SET"

(* C10: the value given to Insert or Replace is wrapped as Add wraps it: the *)
(* element registered in added rows is a new node with empty identity, and   *)
(* the next commit, when every query succeeds, sends one CREATE for it and   *)
(* gives it a non-empty identity.                                            *)
C10_InsertWraps ==
    [][(last.op \in {"Insert", "Replace"} /\ last.ok /\ last'.op = "Commit"
            /\ Succeeded(queries'))
        => /\ kind[last.elem] = "node"
           /\ nodeId[last.elem] = EmptyId
           /\ Contains(colAdded, last.elem)
           /\ Cardinality({i \in 1..Len(queries') :
                  IsCreate(queries'[i]) /\ queries'[i].node = last.elem}) = 1
           /\ nodeId'[last.elem] # EmptyId]_vars

(* C11: Clear on a collection of n persisted rows leaves rows empty and the  *)
(* identity of each of the n rows exactly once in deleted rows, so that the  *)
(* next commit that returns sends exactly one row-delete query per former    *)
(* row.                                                                      *)
Count(list, e) == Cardinality({i \in 1..Len(list) : list[i] = e})

C11_ClearDeletesEachRow ==
    [][/\ (last'.op = "Clear" /\ last'.ok /\ last'.clean)
            => /\ rows' = <<>>
               /\ Len(colDeleted') = Len(rows)
               /\ \A i \in 1..Len(rows) : Count(colDeleted', nodeId[rows[i]]) = 1
       /\ (last.op = "Clear" /\ last.ok /\ last.clean /\ CommitReturned')
            => LET dels == SelectSeq(queries', IsRowDelete)
               IN  /\ Len(dels) = Len(colDeleted)
                   /\ \A i, j \in 1..Len(dels) : i # j => dels[i].id # dels[j].id]_vars

(* C12: a misuse error aborts the call without side effects: a Set that     *)
(* fails (odd number of arguments) leaves the field store, the three key    *)
(* lists of the node and the collection's modified rows unchanged; an Add   *)
(* that fails (a value that is no object) leaves rows and added rows        *)
(* unchanged.                                                               *)
C12_MisuseNoEffect ==
    [][/\ (last'.op = "Set" /\ ~last'.ok)
            => UNCHANGED <<nodeFields, nodeAdded, nodeModified, nodeDeleted, colModified>>
       /\ (last'.op = "Add" /\ ~last'.ok)
            => UNCHANGED <<rows, colAdded>>]_vars

(* C13: a commit in which a query fails aborts at that query: no query is   *)
(* sent after it; when it is a row-delete query, the added rows are created *)
(* (identities assigned, added rows cleared), deleted rows and modified     *)
(* rows are as before the call, and no field commit has run.                *)
C13_AbortAtFirstError ==
    [][(last'.op = "Commit" /\ ~Succeeded(queries'))
        => /\ ~last'.ok
           /\ \A i \in 1..Len(queries') : queries'[i].err => i = Len(queries')
           /\ IsRowDelete(queries'[Len(queries')])
                => /\ colAdded' = <<>>
                   /\ \A x \in Elems(colAdded) : nodeId'[x] # EmptyId
                   /\ colDeleted' = colDeleted
                   /\ colModified' = colModified
                   /\ \A i \in 1..Len(queries') : ~IsFieldQuery(queries'[i])
                   /\ nodeAdded' = nodeAdded
                   /\ nodeDeleted' = nodeDeleted]_vars

\* a commit created a row, failed on the row-delete query that followed, and left
\* deleted and modified rows waiting
C13_Witness ==
    /\ last.op = "Commit" /\ ~last.ok
    /\ Len(queries) >= 2
    /\ IsCreate(queries[1]) /\ ~queries[1].err
    /\ IsRowDelete(queries[Len(queries)]) /\ queries[Len(queries)].err
    /\ colAdded = <<>> /\ colDeleted # <<>> /\ colModified # <<>>

C15_NodeClearRefused ==
    [][last'.op = "NodeClear"
        => /\ ~last'.ok
           /\ queries' = <<>>
           /\ UNCHANGED <<nodeFields, nodeAdded, nodeModified, nodeDeleted, nodeId, rows,
                          colAdded, colModified, colDeleted, store>>]_vars

\* Clear was called on a node that has fields and pending key changes
C15_Witness ==
    /\ last.op = "NodeClear"
    /\ DOMAIN nodeFields[last.elem] # {}
    /\ nodeAdded[last.elem] # <<>>
    /\ nodeModified[last.elem] # <<>>
    /\ colModified # <<>>

(* C16: in every state, every node in rows with the empty identity is in    *)
(* the added rows, the deleted rows never hold the empty identity, and no   *)
(* row-delete, SET or null-out query names the empty identity.              *)
C16_EmptyIdentityTracked ==
    /\ \A i \in 1..Len(rows) :
          (kind[rows[i]] = "node" /\ nodeId[rows[i]] = EmptyId) => Contains(colAdded, rows[i])
    /\ ~Contains(colDeleted, EmptyId)
    /\ \A i \in 1..Len(queries) :
          (IsRowDelete(queries[i]) \/ IsFieldQuery(queries[i])) => queries[i].id # EmptyId

(* C17: Unset(k) of a key k that is in the modified keys of the node        *)
(* returns, takes exactly k out of the modified keys, leaves the added keys *)
(* as they were and does not put k into the deleted keys.                   *)
C17_UnsetModifiedKey ==
    [][(/\ last'.op = "Unset"
        /\ Len(last'.arg) = 1
        /\ Contains(nodeModified[last'.elem], last'.arg[1]))
        => LET n == last'.elem
               k == last'.arg[1]
           IN  /\ last'.ok
               /\ ~Contains(nodeModified'[n], k)
               /\ Elems(nodeModified'[n]) = Elems(nodeModified[n]) \ {k}
               /\ nodeAdded'[n] = nodeAdded[n]
               /\ Contains(nodeDeleted'[n], k) => Contains(nodeDeleted[n], k)]_vars

(* C18: Set(k, v) of a key k that is neither a field of the node nor in one *)
(* of its key lists, followed by Unset(k), leaves k out of the added, the   *)
(* modified and the deleted keys and out of the fields, and the commit that *)
(* comes next sends no query for the node that mentions k.                  *)
C18_SetThenUnsetCancels ==
    [][/\ (last'.op = "Unset" /\ last'.undo)
            => LET n == last'.elem
                   k == last'.arg[1]
               IN  /\ last'.ok
                   /\ ~Contains(nodeAdded'[n], k)
                   /\ ~Contains(nodeModified'[n], k)
                   /\ ~Contains(nodeDeleted'[n], k)
                   /\ ~KeyExists(nodeFields'[n], k)
       /\ (last.op = "Unset" /\ last.undo /\ last'.op = "Commit")
            => \A i \in 1..Len(queries') :
                  queries'[i].node = last.elem
                     => /\ ~Contains(queries'[i].keys, last.arg[1])
                        /\ last.arg[1] \notin DOMAIN queries'[i].params]_vars

\* a commit that sent a query for a node right after an Unset had cancelled the Set of
\* a new key of that node
C18_Witness ==
    /\ last.op = "Commit" /\ last.undo
    /\ ~KeyExists(nodeFields[last.elem], last.arg[1])
    /\ \E i \in 1..Len(queries) : queries[i].node = last.elem

(* C19: the added, modified and deleted keys of a node are sets: no key     *)
(* occurs more than once in any of them, so a commit of the node sends one  *)
(* SET query that assigns each key once and one null-out query per key.     *)
C19_KeyListsAreSets ==
    /\ \A n \in Pool : \A k \in Keys :
          /\ Count(nodeAdded[n], k) <= 1
          /\ Count(nodeModified[n], k) <= 1
          /\ Count(nodeDeleted[n], k) <= 1
    /\ \A i \in 1..Len(queries) :
          /\ queries[i].kind = "SET" => \A k \in Keys : Count(queries[i].keys, k) <= 1
          /\ \A j \in 1..Len(queries) :
                (/\ i # j
                 /\ queries[i].kind = queries[j].kind
                 /\ queries[i].kind \in {"SET", "NULL"}
                 /\ queries[i].node = queries[j].node)
                    => queries[i].keys # queries[j].keys

(* C20: after list calls on a loaded collection and a commit that returns,  *)
(* the records of the database are the rows: every row is a node with a     *)
(* non-empty identity that has a record, and every record is that of a row. *)
C20_StoreEqualsRows ==
    CommitReturned
        => /\ \A i \in 1..Len(rows) :
                 /\ kind[rows[i]] = "node"
                 /\ nodeId[rows[i]] # EmptyId
                 /\ nodeId[rows[i]] \in DOMAIN store
           /\ DOMAIN store = {nodeId[rows[i]] : i \in 1..Len(rows)}
====
